---------------------------- MODULE Spec2Model ----------------------------
(***************************************************************************)
(* Model of the YouTube module of the API proxy: the field-normalisation   *)
(* helpers of YouTubeHelper (parseDuration, parseViewCount,                *)
(* formatImageQuality), YouTubeService.formatDuration, the download-link   *)
(* derivation, and the upstream HTTP exchange of YouTubeService with its   *)
(* abort timer.                                                            *)
(*                                                                         *)
(* Text is a sequence of one-character strings.  A JavaScript number is a  *)
(* record [kind, val]: kind "int" carries the integer val, kind "nan" is   *)
(* NaN, kind "null" is null.                                               *)
(***************************************************************************)
EXTENDS Integers, Sequences, FiniteSets, TLC

VARIABLES
    fn,      \* the helper applied last ("none" before the first call)
    arg,     \* the argument it was applied to
    res,     \* what it returned
    op,          \* the YouTubeService operation called ("none" before the call)
    include,     \* its includeStreamUrl argument
    pc,          \* where the call is suspended: the await it is waiting on
    timer,       \* per exchange, the state of its setTimeout timer
    aborted,     \* per exchange, whether controller.abort() has been invoked
    lateAbort,   \* abort() has been invoked after the call completed
    items,       \* the apiVideo objects being transformed by Promise.all
    stream,      \* per apiVideo, the state of its getYouTubeStreamUrl promise
    order,       \* the apiVideos' positions, in the order their lookups settled
    transformed, \* the apiVideo objects passed to transformYouTubeVideo
    outcome      \* what the call returned or threw

pureVars == <<fn, arg, res>>
svcVars ==
    <<op, include, pc, timer, aborted, lateAbort, items, stream, order, transformed, outcome>>

-----------------------------------------------------------------------------
(* Bounds *)

MaxLen == 4          \* longest generated input text
MaxWidth == 1400     \* largest thumbnail width tried
MaxTiers == 2        \* longest sequence of requested tiers
MaxSegments == 3     \* most template segments (one placeholder between two)
MaxItems == 2        \* most items in an upstream response
MaxFormats == 2      \* most formats in the info of a video

-----------------------------------------------------------------------------
(* JavaScript values *)

IntV(n) == [kind |-> "int", val |-> n]
NaN == [kind |-> "nan", val |-> 0]
Null == [kind |-> "null", val |-> 0]

\* string | undefined
Text(s) == [def |-> TRUE, text |-> s]
Undefined == [def |-> FALSE, text |-> <<>>]

\* !x for x: string | undefined
Falsy(x) == (~x.def) \/ x.text = <<>>

\* a * b and a + b on numbers, NaN propagating
Mul(a, b) == IF a.kind = "nan" \/ b.kind = "nan" THEN NaN ELSE IntV(a.val * b.val)
Add(a, b) == IF a.kind = "nan" \/ b.kind = "nan" THEN NaN ELSE IntV(a.val + b.val)

RECURSIVE pow(_, _)
pow(b, e) == IF e = 0 THEN 1 ELSE b * pow(b, e - 1)

-----------------------------------------------------------------------------
(* Characters *)

DigitChars == {"0", "1", "2", "3", "4", "5", "6", "7", "8", "9"}
HexLetters == {"a", "b", "c", "d", "e", "f", "A", "B", "C", "D", "E", "F"}
\* A text is a sequence of characters. A character of ASCII is the string of
\* that one character; a character outside ASCII is the string "U+" followed
\* by the four hexadecimal digits of its code point.
\*
\* StrWhiteSpaceChar, what Number.parseInt and trim() skip: U+0009..U+000D,
\* the space, and the non-ASCII spaces, byte order mark and line separators
WhiteSpace ==
    {"\t", "\n", "", "\f", "\r", " ",
     "U+00A0", "U+1680",
     "U+2000", "U+2001", "U+2002", "U+2003", "U+2004", "U+2005",
     "U+2006", "U+2007", "U+2008", "U+2009", "U+200A",
     "U+2028", "U+2029", "U+202F", "U+205F", "U+3000", "U+FEFF"}

DigitValue(c) ==
    CASE c = "0" -> 0 [] c = "1" -> 1 [] c = "2" -> 2 [] c = "3" -> 3
      [] c = "4" -> 4 [] c = "5" -> 5 [] c = "6" -> 6 [] c = "7" -> 7
      [] c = "8" -> 8 [] c = "9" -> 9
      [] c \in {"a", "A"} -> 10 [] c \in {"b", "B"} -> 11
      [] c \in {"c", "C"} -> 12 [] c \in {"d", "D"} -> 13
      [] c \in {"e", "E"} -> 14 [] c \in {"f", "F"} -> 15

IsRadixDigit(c, radix) ==
    \/ c \in DigitChars
    \/ radix = 16 /\ c \in HexLetters

Range(s) == {s[i] : i \in DOMAIN s}

\* s from position i (1-based) to its end
Drop(s, i) == SubSeq(s, i, Len(s))

\* length of the longest prefix of s whose characters are all in set
RECURSIVE RunLen(_, _)
RunLen(s, set) ==
    IF s # <<>> /\ Head(s) \in set THEN 1 + RunLen(Tail(s), set) ELSE 0

RECURSIVE reverse(_)
reverse(s) == IF s = <<>> THEN <<>> ELSE Append(reverse(Tail(s)), Head(s))

-----------------------------------------------------------------------------
(* Number.parseInt(string) with no radix argument *)

RECURSIVE DigitsValue(_, _, _)
DigitsValue(s, radix, acc) ==
    IF s = <<>> \/ ~IsRadixDigit(Head(s), radix) THEN acc
    ELSE DigitsValue(Tail(s), radix, acc * radix + DigitValue(Head(s)))

parseInt(str) ==
    LET trimmed == Drop(str, RunLen(str, WhiteSpace) + 1)
        neg == trimmed # <<>> /\ Head(trimmed) = "-"
        signed == trimmed # <<>> /\ Head(trimmed) \in {"-", "+"}
        body == IF signed THEN Tail(trimmed) ELSE trimmed
        hex == Len(body) >= 2 /\ body[1] = "0" /\ body[2] \in {"x", "X"}
        radix == IF hex THEN 16 ELSE 10
        digits == IF hex THEN Drop(body, 3) ELSE body
    IN  IF digits = <<>> \/ ~IsRadixDigit(Head(digits), radix) THEN NaN
        ELSE IntV((IF neg THEN -1 ELSE 1) * DigitsValue(digits, radix, 0))

-----------------------------------------------------------------------------
(* String.prototype.split(sep) for a one-character separator *)

RECURSIVE split(_, _)
split(s, sep) ==
    LET n == RunLen(s, {c \in Range(s) : c # sep})
    IN  IF n = Len(s) THEN <<s>>
        ELSE <<SubSeq(s, 1, n)>> \o split(Drop(s, n + 2), sep)

-----------------------------------------------------------------------------
(* YouTubeHelper *)

\* parts.forEach((part, index) => seconds += parseInt(part) * 60^index)
RECURSIVE sumParts(_, _, _)
sumParts(parts, index, seconds) ==
    IF index > Len(parts) THEN seconds
    ELSE sumParts(parts, index + 1,
                  Add(seconds, Mul(parseInt(parts[index]), IntV(pow(60, index - 1)))))

\* the parts weighted in reading order instead of from the last one
parseDuration_unreversed(lengthText) ==
    IF Falsy(lengthText) THEN Null
    ELSE sumParts(split(lengthText.text, ":"), 1, IntV(0))

parseDuration(lengthText) ==
    IF Falsy(lengthText) THEN Null
    ELSE sumParts(reverse(split(lengthText.text, ":")), 1, IntV(0))

ViewCountChars == DigitChars \cup {","}

\* text.match(/[\d,]+/): the leftmost, longest run; <<>> when there is none
RECURSIVE matchDigitsCommas(_)
matchDigitsCommas(s) ==
    IF s = <<>> THEN <<>>
    ELSE IF Head(s) \in ViewCountChars THEN SubSeq(s, 1, RunLen(s, ViewCountChars))
    ELSE matchDigitsCommas(Tail(s))

\* run.replace(/,/g, '')
removeCommas(s) == SelectSeq(s, LAMBDA c : c # ",")

parseViewCount(viewCountText) ==
    IF Falsy(viewCountText) THEN Null
    ELSE LET match == matchDigitsCommas(viewCountText.text)
         IN  IF match # <<>> THEN parseInt(removeCommas(match)) ELSE Null

\* strict comparisons instead of >=
formatImageQuality_strict(width) ==
    IF width > 1280 THEN "1280x720"
    ELSE IF width > 640 THEN "640x480"
    ELSE IF width > 480 THEN "480x360"
    ELSE IF width > 320 THEN "320x180"
    ELSE "120x90"

formatImageQuality(width) ==
    IF width >= 1280 THEN "1280x720"
    ELSE IF width >= 640 THEN "640x480"
    ELSE IF width >= 480 THEN "480x360"
    ELSE IF width >= 320 THEN "320x180"
    ELSE "120x90"

-----------------------------------------------------------------------------
(* YouTubeService.formatDuration *)

DigitChar(d) ==
    CASE d = 0 -> "0" [] d = 1 -> "1" [] d = 2 -> "2" [] d = 3 -> "3"
      [] d = 4 -> "4" [] d = 5 -> "5" [] d = 6 -> "6" [] d = 7 -> "7"
      [] d = 8 -> "8" [] d = 9 -> "9"

\* n.toString() for a non-negative integer
RECURSIVE toString(_)
toString(n) ==
    IF n < 10 THEN <<DigitChar(n)>>
    ELSE Append(toString(n \div 10), DigitChar(n % 10))

\* s.padStart(targetLength, padChar)
RECURSIVE padStart(_, _, _)
padStart(s, targetLength, padChar) ==
    IF Len(s) >= targetLength THEN s
    ELSE padStart(<<padChar>> \o s, targetLength, padChar)

\* 1-based position of the first "PT" in s, 0 when there is none
RECURSIVE indexOfPT(_, _)
indexOfPT(s, i) ==
    IF i + 1 > Len(s) THEN 0
    ELSE IF s[i] = "P" /\ s[i + 1] = "T" THEN i
    ELSE indexOfPT(s, i + 1)

\* (?:(\d+)U)? at the start of rest: the captured digits (<<>> when the
\* group does not take part in the match) and the text after the group
matchGroup(rest, unit) ==
    LET n == RunLen(rest, DigitChars)
    IN  IF n > 0 /\ Len(rest) > n /\ rest[n + 1] = unit
        THEN [cap |-> SubSeq(rest, 1, n), rest |-> Drop(rest, n + 2)]
        ELSE [cap |-> <<>>, rest |-> rest]

\* isoDuration.match(/PT(?:(\d+)H)?(?:(\d+)M)?(?:(\d+)S)?/)
matchISO(isoDuration) ==
    LET at == indexOfPT(isoDuration, 1)
        h == matchGroup(Drop(isoDuration, at + 2), "H")
        m == matchGroup(h.rest, "M")
        s == matchGroup(m.rest, "S")
    IN  IF at = 0 THEN [found |-> FALSE, g1 |-> <<>>, g2 |-> <<>>, g3 |-> <<>>]
        ELSE [found |-> TRUE, g1 |-> h.cap, g2 |-> m.cap, g3 |-> s.cap]

\* seconds not padded in the M:SS form
formatDuration_unpadded(isoDuration) ==
    LET match == matchISO(isoDuration)
        hours == IF match.g1 # <<>> THEN parseInt(match.g1).val ELSE 0
        minutes == IF match.g2 # <<>> THEN parseInt(match.g2).val ELSE 0
        seconds == IF match.g3 # <<>> THEN parseInt(match.g3).val ELSE 0
    IN  IF ~match.found THEN <<"0", ":", "0", "0">>
        ELSE IF hours > 0
        THEN toString(hours) \o <<":">> \o padStart(toString(minutes), 2, "0")
                 \o <<":">> \o padStart(toString(seconds), 2, "0")
        ELSE toString(minutes) \o <<":">> \o toString(seconds)

formatDuration(isoDuration) ==
    LET match == matchISO(isoDuration)
        hours == IF match.g1 # <<>> THEN parseInt(match.g1).val ELSE 0
        minutes == IF match.g2 # <<>> THEN parseInt(match.g2).val ELSE 0
        seconds == IF match.g3 # <<>> THEN parseInt(match.g3).val ELSE 0
    IN  IF ~match.found THEN <<"0", ":", "0", "0">>
        ELSE IF hours > 0
        THEN toString(hours) \o <<":">> \o padStart(toString(minutes), 2, "0")
                 \o <<":">> \o padStart(toString(seconds), 2, "0")
        ELSE toString(minutes) \o <<":">> \o padStart(toString(seconds), 2, "0")

-----------------------------------------------------------------------------
(* LinkDerivation.  The token is base64 text of a ciphertext whose length  *)
(* is a multiple of the cipher's block size; the ciphertext is an ECB      *)
(* encryption, under a fixed key, of the PKCS-padded UTF-8 bytes of a URL  *)
(* template.  The block cipher itself is opaque configuration: it is       *)
(* represented here by a keyed bijection on bytes applied block by block,  *)
(* which keeps the block structure, the padding and the round trip.        *)

BlockSize == 8
CipherKey == 56

\* the fixed literal in the template that stands for the bitrate
Placeholder == <<"3", "2", "0">>

\* the system's bitrate tiers (kbps)
BitrateTiers == {12, 48, 96, 160, 320}

Base64Alphabet ==
    <<"A", "B", "C", "D", "E", "F", "G", "H", "I", "J", "K", "L", "M",
      "N", "O", "P", "Q", "R", "S", "T", "U", "V", "W", "X", "Y", "Z",
      "a", "b", "c", "d", "e", "f", "g", "h", "i", "j", "k", "l", "m",
      "n", "o", "p", "q", "r", "s", "t", "u", "v", "w", "x", "y", "z",
      "0", "1", "2", "3", "4", "5", "6", "7", "8", "9", "+", "/">>

Base64Value(c) == (CHOOSE i \in DOMAIN Base64Alphabet : Base64Alphabet[i] = c) - 1

\* characters of the templates with their UTF-8 (ASCII) codes
TemplateChars == <<"/", "0", "1", "2", "3", "4", "5", "6", "7", "8", "9", "a", "b">>
TemplateCodes == <<47, 48, 49, 50, 51, 52, 53, 54, 55, 56, 57, 97, 98>>

CharCode(c) == TemplateCodes[CHOOSE i \in DOMAIN TemplateChars : TemplateChars[i] = c]
CodeChar(b) ==
    IF \E i \in DOMAIN TemplateCodes : TemplateCodes[i] = b
    THEN TemplateChars[CHOOSE i \in DOMAIN TemplateCodes : TemplateCodes[i] = b]
    ELSE "?"

utf8Encode(s) == [i \in DOMAIN s |-> CharCode(s[i])]
utf8Decode(bytes) == [i \in DOMAIN bytes |-> CodeChar(bytes[i])]

\* base64 text -> bytes; ok is FALSE when the text is not valid base64
RECURSIVE base64Groups(_)
base64Groups(s) ==
    IF s = <<>> THEN <<>>
    ELSE LET pad == IF s[4] # "=" THEN 0 ELSE IF s[3] # "=" THEN 1 ELSE 2
             v(i) == IF s[i] = "=" THEN 0 ELSE Base64Value(s[i])
             n == v(1) * 262144 + v(2) * 4096 + v(3) * 64 + v(4)
             three == <<n \div 65536, (n \div 256) % 256, n % 256>>
         IN  SubSeq(three, 1, 3 - pad) \o base64Groups(Drop(s, 5))

base64Valid(s) ==
    /\ Len(s) % 4 = 0
    /\ \A i \in DOMAIN s :
          \/ s[i] \in Range(Base64Alphabet)
          \/ s[i] = "=" /\ i >= Len(s) - 1 /\ (i = Len(s) - 1 => s[Len(s)] = "=")

base64Decode(s) ==
    IF base64Valid(s) THEN [ok |-> TRUE, bytes |-> base64Groups(s)]
    ELSE [ok |-> FALSE, bytes |-> <<>>]

\* bytes -> base64 text
RECURSIVE base64Encode(_)
base64Encode(bytes) ==
    IF bytes = <<>> THEN <<>>
    ELSE LET k == IF Len(bytes) >= 3 THEN 3 ELSE Len(bytes)
             b(i) == IF i <= k THEN bytes[i] ELSE 0
             n == b(1) * 65536 + b(2) * 256 + b(3)
             c(j) == Base64Alphabet[j + 1]
         IN  <<c(n \div 262144), c((n \div 4096) % 64),
               IF k >= 2 THEN c((n \div 64) % 64) ELSE "=",
               IF k = 3 THEN c(n % 64) ELSE "=">>
             \o base64Encode(Drop(bytes, k + 1))

\* the keyed bijection on bytes and its inverse
encryptByte(b) == (b + CipherKey) % 256
decryptByte(b) == (b + 256 - CipherKey) % 256

\* PKCS padding: n bytes of value n, 1 <= n <= BlockSize
pkcsPad(bytes) ==
    LET n == BlockSize - (Len(bytes) % BlockSize)
    IN  bytes \o [i \in 1..n |-> n]

\* the bytes without their padding; ok is FALSE when the padding is invalid
pkcsUnpad(bytes) ==
    LET n == IF bytes = <<>> THEN 0 ELSE bytes[Len(bytes)]
    IN  IF /\ n >= 1
           /\ n <= BlockSize
           /\ n <= Len(bytes)
           /\ \A i \in (Len(bytes) - n + 1)..Len(bytes) : bytes[i] = n
        THEN [ok |-> TRUE, bytes |-> SubSeq(bytes, 1, Len(bytes) - n)]
        ELSE [ok |-> FALSE, bytes |-> <<>>]

\* the token the upstream service issues for a template
encryptTemplate(template) ==
    LET padded == pkcsPad(utf8Encode(template))
    IN  base64Encode([i \in DOMAIN padded |-> encryptByte(padded[i])])

\* only the first occurrence replaced
RECURSIVE replaceFirst(_, _, _)
replaceFirst(text, pattern, by) ==
    IF Len(text) < Len(pattern) THEN text
    ELSE IF SubSeq(text, 1, Len(pattern)) = pattern
    THEN by \o Drop(text, Len(pattern) + 1)
    ELSE <<Head(text)>> \o replaceFirst(Tail(text), pattern, by)

\* text.replaceAll(pattern, by): left to right, non-overlapping
RECURSIVE replaceAll(_, _, _)
replaceAll(text, pattern, by) ==
    IF Len(text) < Len(pattern) THEN text
    ELSE IF SubSeq(text, 1, Len(pattern)) = pattern
    THEN by \o replaceAll(Drop(text, Len(pattern) + 1), pattern, by)
    ELSE <<Head(text)>> \o replaceAll(Tail(text), pattern, by)

deriveLinks(token, tiers) ==
    LET decoded == base64Decode(token)
        plain == pkcsUnpad([i \in DOMAIN decoded.bytes |-> decryptByte(decoded.bytes[i])])
        template == utf8Decode(plain.bytes)
    IN  IF ~decoded.ok \/ Len(decoded.bytes) % BlockSize # 0
        THEN [status |-> "DecodeError", links |-> <<>>]
        ELSE IF ~plain.ok
        THEN [status |-> "DecryptError", links |-> <<>>]
        ELSE [status |-> "ok",
              links |-> [i \in DOMAIN tiers |->
                            [tier |-> tiers[i],
                             url |-> replaceAll(template, Placeholder, toString(tiers[i]))]]]

-----------------------------------------------------------------------------
(* Inputs of the helpers *)

Strings(alphabet, n) == UNION {[1..k -> alphabet] : k \in 0..n}

Join(parts, sep) ==
    LET RECURSIVE go(_)
        go(i) == IF i > Len(parts) THEN <<>>
                 ELSE (IF i > 1 THEN sep ELSE <<>>) \o parts[i] \o go(i + 1)
    IN  go(1)

ParseAlphabet == {"0", "1", "7", ":", ",", "a", "x", "-", " "}

ParseExamples ==
    { <<"3", ":", "4", "5">>,
      <<"1", ":", "0", "2", ":", "0", "3">>,
      <<"1", ":", "0", ":", "0", ":", "0">>,
      <<"1", ",", "2", "3", "4", ",", "5", "6", "7", " ", "v", "i", "e", "w", "s">>,
      <<"N", "o", " ", "v", "i", "e", "w", "s">>,
      <<"1", "2", "a", ":", "3", "0">>,
      <<" ", "7", ":", "0", "9">>,
      <<"+", "7">>,
      <<"a", ",", " ", "1", "2">>,
      <<"\r", "7">>,
      <<"1", ":", "\r", "3", "0">>,
      <<"\f", "-", "7">>,
      <<"", "7">>,
      <<"U+00A0", "U+FEFF", "7", ":", "U+2003", "1">>,
      <<"U+3000", "7", ":", "U+2028", "1">>,
      <<"U+200B", "7">>,
      <<"1", ":", "U+00E9", "3", "0">> }

ParseInputs ==
    {Undefined} \cup {Text(s) : s \in Strings(ParseAlphabet, MaxLen) \cup ParseExamples}

Widths == (0 - 2)..MaxWidth

\* ISO-8601 durations: each of hours, minutes, seconds absent (-1) or a count
IsoCounts == {0 - 1, 0, 3, 9, 10, 59, 100}

isoField(n, unit, lead) ==
    IF n < 0 THEN <<>> ELSE lead \o toString(n) \o <<unit>>

isoText(h, m, s, lead, before, after) ==
    before \o <<"P", "T">> \o isoField(h, "H", lead) \o isoField(m, "M", lead)
        \o isoField(s, "S", lead) \o after

IsoAlphabet == {"P", "T", "H", "M", "S", "1", "x"}

IsoInputs ==
    {[text |-> isoText(h, m, s, lead, before, after), h |-> h, m |-> m, s |-> s,
      built |-> TRUE] :
        h \in IsoCounts, m \in IsoCounts, s \in IsoCounts,
        lead \in {<<>>, <<"0">>}, before \in {<<>>, <<"x">>}, after \in {<<>>, <<"x">>}}
    \cup
    {[text |-> t, h |-> 0 - 1, m |-> 0 - 1, s |-> 0 - 1, built |-> FALSE] :
        t \in Strings(IsoAlphabet, MaxLen)
              \cup {<<"g", "a", "r", "b", "a", "g", "e">>, <<"P", "1", "D", "T", "2", "H">>}}

\* templates: segments without the placeholder, joined by the placeholder
Segments == {<<>>, <<"a">>, <<"3", "2">>, <<"/", "b", "0">>}

LinkInputs ==
    {[segments |-> segs, tiers |-> tiers] :
        segs \in UNION {[1..k -> Segments] : k \in 1..MaxSegments},
        tiers \in UNION {[1..k -> BitrateTiers] : k \in 0..MaxTiers}}

-----------------------------------------------------------------------------
(* getYouTubeStreamUrl: the choice of a format from info.formats *)

\* a format of ytdl's info: bitrate is a number or absent (Null), url is a
\* string, "" standing for an absent or empty one
Formats ==
    [hasAudio : BOOLEAN, hasVideo : BOOLEAN,
     bitrate : {Null, IntV(64), IntV(128)}, url : {"", "u1", "u2"}]
FormatLists == UNION {[1..k -> Formats] : k \in 0..MaxFormats}

\* f.bitrate || 0
bitrateOr0(f) == IF f.bitrate.kind = "int" THEN f.bitrate.val ELSE 0

\* where the stable sort puts f among formats already in descending order:
\* after every format whose bitrate is not smaller
RECURSIVE insertByBitrate(_, _)
insertByBitrate(f, sorted) ==
    IF sorted = <<>> THEN <<f>>
    ELSE IF bitrateOr0(sorted[1]) >= bitrateOr0(f)
    THEN <<sorted[1]>> \o insertByBitrate(f, Tail(sorted))
    ELSE <<f>> \o sorted

\* .sort((a, b) => (b.bitrate || 0) - (a.bitrate || 0)): descending, stable
RECURSIVE sortByBitrate(_)
sortByBitrate(fs) ==
    IF fs = <<>> THEN <<>>
    ELSE insertByBitrate(fs[Len(fs)], sortByBitrate(SubSeq(fs, 1, Len(fs) - 1)))

audioOnly(fs) == SelectSeq(fs, LAMBDA f : f.hasAudio /\ ~f.hasVideo)
withAudio(fs) == SelectSeq(fs, LAMBDA f : f.hasAudio)

UrlReturned(url) == [threw |-> FALSE, url |-> url, error |-> ""]
UrlThrew(error) == [threw |-> TRUE, url |-> "", error |-> error]

\* the first element of each sorted list is the only one looked at
getYouTubeStreamUrl(formats) ==
    LET audio == sortByBitrate(audioOnly(formats))
        any == sortByBitrate(withAudio(formats))
    IN  IF audio # <<>> /\ audio[1].url # "" THEN UrlReturned(audio[1].url)
        ELSE IF any = <<>> \/ any[1].url = "" THEN UrlThrew("No suitable format found")
        ELSE UrlReturned(any[1].url)

-----------------------------------------------------------------------------
(* The helpers as operations: one call each, on any input *)

PureInit ==
    /\ fn = "none"
    /\ arg = Undefined
    /\ res = Null

ParseDuration ==
    /\ fn = "none"
    /\ \E x \in ParseInputs :
        /\ fn' = "parseDuration"
        /\ arg' = x
        /\ res' = parseDuration(x)
        /\ UNCHANGED svcVars

ParseViewCount ==
    /\ fn = "none"
    /\ \E x \in ParseInputs :
        /\ fn' = "parseViewCount"
        /\ arg' = x
        /\ res' = parseViewCount(x)
        /\ UNCHANGED svcVars

FormatImageQuality ==
    /\ fn = "none"
    /\ \E w \in Widths :
        /\ fn' = "formatImageQuality"
        /\ arg' = w
        /\ res' = formatImageQuality(w)
        /\ UNCHANGED svcVars

FormatDuration ==
    /\ fn = "none"
    /\ \E x \in IsoInputs :
        /\ fn' = "formatDuration"
        /\ arg' = x
        /\ res' = formatDuration(x.text)
        /\ UNCHANGED svcVars

DeriveLinks ==
    /\ fn = "none"
    /\ \E x \in LinkInputs :
        /\ fn' = "deriveLinks"
        /\ arg' = x
        /\ res' = deriveLinks(encryptTemplate(Join(x.segments, Placeholder)), x.tiers)
        /\ UNCHANGED svcVars

\* getYouTubeStreamUrl(videoId) up to its await ytdl.getBasicInfo
CallGetYouTubeStreamUrl ==
    /\ fn = "none"
    /\ fn' = "getBasicInfo"
    /\ arg' = <<>>
    /\ res' = Null
    /\ UNCHANGED svcVars

\* getBasicInfo resolves with the info of the video: the format is chosen
GetBasicInfoResolves ==
    /\ fn = "getBasicInfo"
    /\ \E formats \in FormatLists :
        /\ fn' = "getYouTubeStreamUrl"
        /\ arg' = formats
        /\ res' = getYouTubeStreamUrl(formats)
        /\ UNCHANGED svcVars

\* getBasicInfo rejects: getYouTubeStreamUrl rejects with its error
GetBasicInfoRejects ==
    /\ fn = "getBasicInfo"
    /\ fn' = "getYouTubeStreamUrl"
    /\ arg' = <<>>
    /\ res' = UrlThrew("getBasicInfo failed")
    /\ UNCHANGED svcVars

-----------------------------------------------------------------------------
(* YouTubeService: the upstream items and the records built from them *)

\* a JSON value with its runtime type; Missing is a property that is absent
Str(s) == [type |-> "string", v |-> s]
Num(s) == [type |-> "number", v |-> s]
Missing == [type |-> "undefined", v |-> ""]

\* !x for a JSON value
FalsyValue(x) ==
    \/ x.type = "undefined"
    \/ x.type = "string" /\ x.v = ""
    \/ x.type = "number" /\ x.v = "0"

\* items of the videos endpoint: a well-formed one; one whose title is a
\* number and that carries no statistics; one without its snippet; a live one
\* without description and publishedAt whose thumbnail has no url and no
\* height
UpstreamItems ==
    { [id |-> "a", snippet |-> TRUE, title |-> Str("A"),
       channelTitle |-> Str("Channel"), channelId |-> Str("UC1"),
       description |-> Str("about A"), publishedAt |-> Str("2024-01-01T00:00:00Z"),
       liveBroadcastContent |-> "none",
       duration |-> <<"P", "T", "3", "M", "9", "S">>,
       viewCount |-> Text(<<"1", ",", "2", "0", "4">>),
       thumbnails |-> <<[url |-> Str("a-default.jpg"), width |-> 120, height |-> Num("90")],
                        [url |-> Str("a-high.jpg"), width |-> 640, height |-> Num("480")]>>],
      [id |-> "b", snippet |-> TRUE, title |-> Num("7"),
       channelTitle |-> Str("Channel"), channelId |-> Str("UC1"),
       description |-> Str(""), publishedAt |-> Str("2024-01-01T00:00:00Z"),
       liveBroadcastContent |-> "none",
       duration |-> <<"P", "T", "1", "H">>,
       viewCount |-> Undefined,
       thumbnails |-> <<[url |-> Str("b-maxres.jpg"), width |-> 1280, height |-> Num("720")]>>],
      [id |-> "c", snippet |-> FALSE, title |-> Missing,
       channelTitle |-> Missing, channelId |-> Missing,
       description |-> Missing, publishedAt |-> Missing,
       liveBroadcastContent |-> "none",
       duration |-> <<>>, viewCount |-> Undefined, thumbnails |-> <<>>],
      [id |-> "d", snippet |-> TRUE, title |-> Str("D"),
       channelTitle |-> Str("Channel"), channelId |-> Str("UC1"),
       description |-> Missing, publishedAt |-> Missing,
       liveBroadcastContent |-> "live",
       duration |-> <<"P", "0", "D">>,
       viewCount |-> Text(<<"1", "2">>),
       thumbnails |-> <<[url |-> Missing, width |-> 320, height |-> Missing]>>] }

\* bodies of the videos endpoint: data.items missing, or a list of items
IdsBodies ==
    {[hasItems |-> FALSE, items |-> <<>>]} \cup
    {[hasItems |-> TRUE, items |-> s] :
        s \in UNION {[1..k -> UpstreamItems] : k \in 0..MaxItems}}

\* video ids as the search endpoint or a caller gives them, as texts: the
\* empty one stands for a missing id as well, four are blank, and one is a
\* zero width space, which trim() keeps
VideoIds ==
    {<<"a">>, <<"b">>, <<>>, <<" ">>, <<" ", " ">>, <<"\t">>, <<"U+2003">>, <<"U+200B">>}
VideoIdLists == UNION {[1..k -> VideoIds] : k \in 0..MaxItems}

\* bodies of the search endpoint: data.items missing, or the items' videoIds
ListBodies ==
    {[hasItems |-> FALSE, ids |-> <<>>]} \cup
    {[hasItems |-> TRUE, ids |-> s] : s \in VideoIdLists}

\* the apiVideo object getVideosByIds builds from an item
apiVideoOf(item) ==
    [id |-> item.id,
     title |-> item.title,
     thumbnails |-> [i \in DOMAIN item.thumbnails |->
                        [url |-> item.thumbnails[i].url,
                         width |-> item.thumbnails[i].width,
                         height |-> item.thumbnails[i].height]],
     channelTitle |-> item.channelTitle,
     channelId |-> item.channelId,
     description |-> item.description,
     viewCount |-> item.viewCount,
     publishDate |-> item.publishedAt,
     lengthText |-> Text(formatDuration(item.duration)),
     isLive |-> (item.liveBroadcastContent = "live")]

\* the zod schema of an apiVideo, as a predicate; publishedText is optional and
\* never set, viewCount and lengthText are a string or undefined in every
\* apiVideo
YouTubeVideoAPIResponseModel(video) ==
    /\ video.id \in STRING
    /\ video.title.type = "string"
    /\ \A i \in DOMAIN video.thumbnails :
          /\ video.thumbnails[i].url.type = "string"
          /\ video.thumbnails[i].width \in Int
          /\ video.thumbnails[i].height.type = "number"
    /\ video.channelTitle.type = "string"
    /\ video.channelId.type = "string"
    /\ video.description.type = "string"
    /\ video.viewCount.def \in BOOLEAN
    /\ video.publishDate.type \in {"string", "undefined"}
    /\ video.lengthText.def \in BOOLEAN
    /\ video.isLive \in BOOLEAN

StreamUrlOf(id) ==
    CASE id = "a" -> "stream-a" [] id = "b" -> "stream-b" [] id = "d" -> "stream-d"
      [] OTHER -> "stream"

\* the record transformYouTubeVideo returns, given what the stream lookup
\* left in streamUrl ("null" when not asked for or failed); a null publishDate
\* is Missing
transformYouTubeVideo(video, streamUrl) ==
    [id |-> video.id,
     name |-> video.title,
     type |-> "youtube",
     duration |-> parseDuration(video.lengthText),
     url |-> <<"https://www.youtube.com/watch?v=", video.id>>,
     image |-> [i \in DOMAIN video.thumbnails |->
                   [quality |-> formatImageQuality(video.thumbnails[i].width),
                    url |-> video.thumbnails[i].url]],
     channel |-> [id |-> video.channelId, name |-> video.channelTitle],
     description |-> IF FalsyValue(video.description) THEN Str("") ELSE video.description,
     publishDate |-> IF FalsyValue(video.publishDate) THEN Missing ELSE video.publishDate,
     viewCount |-> parseViewCount(video.viewCount),
     isLive |-> video.isLive,
     streamUrl |-> streamUrl]

-----------------------------------------------------------------------------
(* YouTubeService: the calls *)

Frames == {"list", "ids"}

NoOutcome == [kind |-> "none", videos |-> <<>>, error |-> ""]
Returned(videos) == [kind |-> "returned", videos |-> videos, error |-> ""]
Threw(error) == [kind |-> "threw", videos |-> <<>>, error |-> error]

\* the catch blocks if the one of getSuggestions threw like the others
failure_rethrown(o) ==
    CASE o = "searchVideos" -> Threw("Failed to search YouTube videos")
      [] OTHER -> Threw("Failed to fetch video details")

\* what the catch blocks on the way up turn a failure into
failure(o) ==
    CASE o = "getSuggestions" -> Returned(<<>>)
      [] o = "searchVideos" -> Threw("Failed to search YouTube videos")
      [] OTHER -> Threw("Failed to fetch video details")

frameOf(p) ==
    CASE p \in {"list_fetch", "list_json"} -> "list"
      [] p \in {"ids_fetch", "ids_json"} -> "ids"
      [] OTHER -> "none"

\* str.trim(): the white space at both ends is dropped
trim(str) ==
    LET start == Drop(str, RunLen(str, WhiteSpace) + 1)
    IN  reverse(Drop(reverse(start), RunLen(reverse(start), WhiteSpace) + 1))

\* videoIds.filter((id) => id && id.trim() !== '')
validIds(videoIds) == SelectSeq(videoIds, LAMBDA id : id # <<>> /\ trim(id) # <<>>)

SvcInit ==
    /\ op = "none"
    /\ include = FALSE
    /\ pc = "idle"
    /\ timer = [f \in Frames |-> "unset"]
    /\ aborted = [f \in Frames |-> FALSE]
    /\ lateAbort = FALSE
    /\ items = <<>>
    /\ stream = <<>>
    /\ order = <<>>
    /\ transformed = {}
    /\ outcome = NoOutcome

\* the call completes with result
Complete(result) ==
    /\ pc' = "done"
    /\ outcome' = result

\* getVideosByIds up to its await fetch: nothing to fetch for no valid id,
\* else the timer is armed and the fetch started
EnterGetVideosByIds(videoIds) ==
    IF validIds(videoIds) = <<>>
    THEN /\ Complete(Returned(<<>>))
         /\ UNCHANGED timer
    ELSE /\ timer' = [timer EXCEPT !["ids"] = "armed"]
         /\ pc' = "ids_fetch"
         /\ UNCHANGED outcome

\* searchVideos(query, limit, includeStreamUrl) up to its await fetch
CallSearchVideos ==
    /\ pc = "idle"
    /\ \E inc \in BOOLEAN :
        /\ op' = "searchVideos"
        /\ include' = inc
        /\ timer' = [timer EXCEPT !["list"] = "armed"]
        /\ pc' = "list_fetch"
        /\ UNCHANGED <<aborted, lateAbort, items, stream, order, transformed, outcome>>
        /\ UNCHANGED pureVars

\* the handler of the search route on an empty query: it answers at once and
\* searchVideos is not called
SearchWithoutQuery ==
    /\ pc = "idle"
    /\ op' = "search without query"
    /\ pc' = "done"
    /\ UNCHANGED <<include, timer, aborted, lateAbort, items, stream, order, transformed,
                   outcome>>
    /\ UNCHANGED pureVars

\* getSuggestions(videoId, limit) up to its await fetch
CallGetSuggestions ==
    /\ pc = "idle"
    /\ op' = "getSuggestions"
    /\ include' = FALSE
    /\ timer' = [timer EXCEPT !["list"] = "armed"]
    /\ pc' = "list_fetch"
    /\ UNCHANGED <<aborted, lateAbort, items, stream, order, transformed, outcome>>
    /\ UNCHANGED pureVars

\* getVideosByIds(videoIds, includeStreamUrl) up to its await fetch
CallGetVideosByIds ==
    /\ pc = "idle"
    /\ \E videoIds \in VideoIdLists, inc \in BOOLEAN :
        /\ op' = "getVideosByIds"
        /\ include' = inc
        /\ EnterGetVideosByIds(videoIds)
        /\ UNCHANGED <<aborted, lateAbort, items, stream, order, transformed>>
        /\ UNCHANGED pureVars

\* the fetch promise resolves with the response's status: the timer is
\* cleared, a non-OK status fails the call, else response.json() is awaited
FetchResolves ==
    \E ok \in BOOLEAN :
        /\ pc \in {"list_fetch", "ids_fetch"}
        /\ timer' = [timer EXCEPT ![frameOf(pc)] = "cleared"]
        /\ IF ok
           THEN /\ pc' = (IF pc = "list_fetch" THEN "list_json" ELSE "ids_json")
                /\ UNCHANGED outcome
           ELSE Complete(failure(op))
        /\ UNCHANGED <<op, include, aborted, lateAbort, items, stream, order, transformed>>
        /\ UNCHANGED pureVars

\* the fetch promise rejects with a network error: control goes to the catch
FetchRejects ==
    /\ pc \in {"list_fetch", "ids_fetch"}
    /\ Complete(failure(op))
    /\ UNCHANGED <<op, include, timer, aborted, lateAbort, items, stream, order, transformed>>
    /\ UNCHANGED pureVars

\* the timer of exchange f fires: controller.abort(), which rejects the
\* pending fetch or body read of f
TimerFires(f) ==
    /\ timer[f] = "armed"
    /\ timer' = [timer EXCEPT ![f] = "fired"]
    /\ aborted' = [aborted EXCEPT ![f] = TRUE]
    /\ lateAbort' = (lateAbort \/ pc = "done")
    /\ IF frameOf(pc) = f
       THEN Complete(failure(op))
       ELSE UNCHANGED <<pc, outcome>>
    /\ UNCHANGED <<op, include, items, stream, order, transformed>>
    /\ UNCHANGED pureVars

\* response.json() of the search endpoint resolves
ListBodyArrives ==
    /\ pc = "list_json"
    /\ \E data \in ListBodies :
        /\ LET videoIds == SelectSeq(data.ids, LAMBDA id : id # <<>>)
           IN  IF ~data.hasItems \/ data.ids = <<>> \/ videoIds = <<>>
               THEN /\ Complete(Returned(<<>>))
                    /\ UNCHANGED timer
               ELSE EnterGetVideosByIds(videoIds)
        /\ UNCHANGED <<op, include, aborted, lateAbort, items, stream, order, transformed>>
        /\ UNCHANGED pureVars

\* response.json() of the videos endpoint resolves: every item is mapped to
\* an apiVideo and handed to transformYouTubeVideo, which with stream lookup
\* starts getYouTubeStreamUrl at once. A body without items throws before the
\* map; an item without snippet throws in its mapper and the call fails while
\* the lookups started for the other items are left pending. Otherwise, with
\* stream lookup, the call waits for every lookup to settle
IdsBodyArrives ==
    /\ pc = "ids_json"
    /\ \E data \in IdsBodies :
        /\ LET good == SelectSeq(data.items, LAMBDA item : item.snippet)
               videos == [i \in DOMAIN good |-> apiVideoOf(good[i])]
           IN  /\ transformed' = transformed \cup Range(videos)
               /\ IF ~data.hasItems
                  THEN /\ Complete(failure(op))
                       /\ UNCHANGED <<items, stream>>
                  ELSE IF Len(good) < Len(data.items)
                  THEN /\ Complete(failure(op))
                       /\ IF include /\ videos # <<>>
                          THEN /\ items' = videos
                               /\ stream' = [i \in DOMAIN videos |-> "pending"]
                          ELSE UNCHANGED <<items, stream>>
                  ELSE IF include /\ videos # <<>>
                  THEN /\ pc' = "streams"
                       /\ items' = videos
                       /\ stream' = [i \in DOMAIN videos |-> "pending"]
                       /\ UNCHANGED outcome
                  ELSE /\ Complete(Returned(
                              [i \in DOMAIN videos |-> transformYouTubeVideo(videos[i], "null")]))
                       /\ items' = videos
                       /\ UNCHANGED stream
        /\ UNCHANGED <<op, include, timer, aborted, lateAbort, order>>
        /\ UNCHANGED pureVars

\* response.json() rejects (the body is not JSON, or the connection breaks)
BodyFails ==
    /\ pc \in {"list_json", "ids_json"}
    /\ Complete(failure(op))
    /\ UNCHANGED <<op, include, timer, aborted, lateAbort, items, stream, order, transformed>>
    /\ UNCHANGED pureVars

\* the records if they were collected as the lookups settle: order holds the
\* positions settled before, the one missing from it settles last
recordsOf_completionOrder(videos, settled) ==
    LET last == CHOOSE j \in DOMAIN videos : j \notin Range(order)
        completion == Append(order, last)
    IN  [k \in DOMAIN videos |->
            transformYouTubeVideo(videos[completion[k]],
                IF settled[completion[k]] = "resolved"
                THEN StreamUrlOf(videos[completion[k]].id) ELSE "null")]

\* the records of Promise.all once every lookup has settled
recordsOf(videos, settled) ==
    [i \in DOMAIN videos |->
        transformYouTubeVideo(videos[i],
            IF settled[i] = "resolved" THEN StreamUrlOf(videos[i].id) ELSE "null")]

\* Promise.all if transformYouTubeVideo let a failed lookup through: the first
\* rejection rejects Promise.all and the catch of getVideosByIds takes over
promiseAll_uncaught(videos, settled) ==
    IF \E i \in DOMAIN settled : settled[i] = "rejected"
    THEN failure(op)
    ELSE Returned(recordsOf(videos, settled))

\* what Promise.all over the transformYouTubeVideo promises gives once every
\* lookup has settled: a lookup that throws is caught inside
\* transformYouTubeVideo, so no promise rejects
promiseAll(videos, settled) == Returned(recordsOf(videos, settled))

\* getYouTubeStreamUrl of the i-th apiVideo resolves or throws; the last one
\* to settle completes Promise.all and the call, unless the call has already
\* failed on another item
StreamSettles(i) ==
    \E how \in {"resolved", "rejected"} :
        /\ pc \in {"streams", "done"}
        /\ i \in DOMAIN stream
        /\ stream[i] = "pending"
        /\ LET settled == [stream EXCEPT ![i] = how]
           IN  /\ stream' = settled
               /\ order' = Append(order, i)
               /\ IF pc = "streams" /\ \A j \in DOMAIN settled : settled[j] # "pending"
                  THEN Complete(promiseAll(items, settled))
                  ELSE UNCHANGED <<pc, outcome>>
        /\ UNCHANGED <<op, include, timer, aborted, lateAbort, items, transformed>>
        /\ UNCHANGED pureVars

\* what the await of getYouTubeStreamUrl can give getStreamUrl: the choice
\* made from the formats of the info, or the error of getBasicInfo
StreamLookups ==
    {getYouTubeStreamUrl(formats) : formats \in FormatLists}
        \cup {UrlThrew("getBasicInfo failed")}

ReturnedUrl(url) == [kind |-> "returned", videos |-> <<>>, error |-> "", url |-> url]

\* getStreamUrl: the URL found, or its own error for whatever was thrown
getStreamUrl(found) ==
    IF found.threw THEN Threw("Failed to get YouTube stream URL")
    ELSE ReturnedUrl(found.url)

\* getStreamUrl(videoId) up to its await
CallGetStreamUrl ==
    /\ pc = "idle"
    /\ op' = "getStreamUrl"
    /\ pc' = "stream_url"
    /\ UNCHANGED <<include, timer, aborted, lateAbort, items, stream, order, transformed,
                   outcome>>
    /\ UNCHANGED pureVars

\* getYouTubeStreamUrl settles and getStreamUrl completes
StreamUrlSettles ==
    /\ pc = "stream_url"
    /\ \E found \in StreamLookups : Complete(getStreamUrl(found))
    /\ UNCHANGED <<op, include, timer, aborted, lateAbort, items, stream, order, transformed>>
    /\ UNCHANGED pureVars

\* getVideoById on what its getVideosByIds([videoId], includeStreamUrl) gave:
\* the first record, or its own error for no record and for whatever was thrown
getVideoById(result) ==
    IF result.kind = "returned" /\ result.videos # <<>>
    THEN Returned(<<result.videos[1]>>)
    ELSE Threw("Failed to fetch YouTube video details")

-----------------------------------------------------------------------------
(* YouTubeController: what each route answers to the outcome of its call *)

\* ctx.json({success, data}) or ctx.json({success, message}, status)
Answer(status, success, body) ==
    [status |-> status, success |-> success, body |-> body, unhandled |-> FALSE]

\* the handler threw: nothing of the route answers
Unhandled == [status |-> 0, success |-> FALSE, body |-> <<>>, unhandled |-> TRUE]

\* GET /youtube/search: 400 for a missing query, else searchVideos in
\* try/catch
searchRoute(hasQuery, result) ==
    IF ~hasQuery THEN Answer(400, FALSE, "Query parameter is required")
    ELSE IF result.kind = "threw" THEN Answer(500, FALSE, "Search failed")
    ELSE Answer(200, TRUE, result.videos)

\* GET /youtube/video/:id: getVideoById in try/catch
videoRoute(result) ==
    LET video == getVideoById(result)
    IN  IF video.kind = "threw" THEN Answer(404, FALSE, "Video not found")
        ELSE Answer(200, TRUE, video.videos[1])

\* GET /youtube/stream/:id: getStreamUrl in try/catch
streamRoute(result) ==
    IF result.kind = "threw" THEN Answer(404, FALSE, "Stream not available")
    ELSE Answer(200, TRUE, result.url)

\* GET /youtube/suggestions/:id: getSuggestions, no try/catch
suggestionsRoute(result) ==
    IF result.kind = "threw" THEN Unhandled
    ELSE Answer(200, TRUE, result.videos)

\* the answer of the route whose call has completed; getVideosByIds is
\* reached through getVideoById of the video route, and the search route
\* that was given no query has called nothing
response ==
    CASE op = "search without query" -> searchRoute(FALSE, outcome)
      [] op = "searchVideos" -> searchRoute(TRUE, outcome)
      [] op = "getVideosByIds" -> videoRoute(outcome)
      [] op = "getStreamUrl" -> streamRoute(outcome)
      [] op = "getSuggestions" -> suggestionsRoute(outcome)
      [] OTHER -> Unhandled

vars == <<fn, arg, res, op, include, pc, timer, aborted, lateAbort, items, stream,
          order, transformed, outcome>>

Init == PureInit /\ SvcInit

NextHelpers ==
    \/ ParseDuration
    \/ ParseViewCount
    \/ FormatImageQuality
    \/ FormatDuration
    \/ DeriveLinks
    \/ CallGetYouTubeStreamUrl
    \/ GetBasicInfoResolves
    \/ GetBasicInfoRejects

SpecHelpers == Init /\ [][NextHelpers]_vars

Next ==
    \/ CallSearchVideos
    \/ CallGetSuggestions
    \/ CallGetVideosByIds
    \/ FetchResolves
    \/ FetchRejects
    \/ \E f \in Frames : TimerFires(f)
    \/ ListBodyArrives
    \/ IdsBodyArrives
    \/ BodyFails
    \/ \E i \in 1..MaxItems : StreamSettles(i)
    \/ CallGetStreamUrl
    \/ StreamUrlSettles
    \/ SearchWithoutQuery

Spec == Init /\ [][Next]_vars

-----------------------------------------------------------------------------
(* Properties of the helpers (specification SpecHelpers) *)

\* the value a text of decimal digits spells
RECURSIVE DecimalValue(_)
DecimalValue(s) ==
    IF s = <<>> THEN 0
    ELSE DigitValue(s[Len(s)]) + 10 * DecimalValue(SubSeq(s, 1, Len(s) - 1))

AllDigits(s) == s # <<>> /\ \A i \in DOMAIN s : s[i] \in DigitChars

\* colon-separated non-negative integers: digits and colons only, no part empty
WellFormedDuration(s) ==
    /\ s # <<>>
    /\ \A i \in DOMAIN s : s[i] \in DigitChars \cup {":"}
    /\ s[1] # ":" /\ s[Len(s)] # ":"
    /\ \A i \in 1..(Len(s) - 1) : ~(s[i] = ":" /\ s[i + 1] = ":")

\* p_k:...:p_0 read left to right in base 60 (Horner)
RECURSIVE HornerSeconds(_, _, _)
HornerSeconds(s, total, cur) ==
    IF s = <<>> THEN total * 60 + cur
    ELSE IF Head(s) = ":" THEN HornerSeconds(Tail(s), total * 60 + cur, 0)
    ELSE HornerSeconds(Tail(s), total, cur * 10 + DigitValue(Head(s)))

\* C1: parseDuration and parseViewCount return an integer or null for every
\* input, never NaN.
C1_IntegerOrAbsent ==
    fn \in {"parseDuration", "parseViewCount"} => res.kind \in {"int", "null"}

\* C2: parseDuration returns null for empty or undefined text, and for
\* colon-separated non-negative integers p_k:...:p_0 the sum of p_i * 60^i.
C2_DurationIsBase60Sum ==
    fn = "parseDuration" =>
        /\ Falsy(arg) => res = Null
        /\ (arg.def /\ WellFormedDuration(arg.text)) =>
               res = IntV(HornerSeconds(arg.text, 0, 0))

C2_Witness ==
    /\ fn = "parseDuration"
    /\ arg = Text(<<"1", ":", "0", "2", ":", "0", "3">>)
    /\ res = IntV(3723)

\* the numeric prefix of a part, zero when it has none
PrefixValue(part) ==
    LET n == RunLen(part, DigitChars)
    IN  IF n = 0 THEN 0 ELSE DecimalValue(SubSeq(part, 1, n))

\* the parts of s between colons, by the positions of the colons
PartsBetweenColons(s) ==
    LET cuts == {0, Len(s) + 1} \cup {i \in DOMAIN s : s[i] = ":"}
        starts == cuts \ {Len(s) + 1}
        next(a) == CHOOSE b \in cuts : b > a /\ \A c \in cuts : c > a => c >= b
    IN  {[from |-> a + 1, to |-> next(a) - 1,
          after |-> Cardinality({c \in starts : c > a})] : a \in starts}

RECURSIVE SumTerms(_, _)
SumTerms(s, parts) ==
    IF parts = {} THEN 0
    ELSE LET p == CHOOSE q \in parts : TRUE
         IN  PrefixValue(SubSeq(s, p.from, p.to)) * pow(60, p.after)
                 + SumTerms(s, parts \ {p})

PermissiveSeconds(s) == SumTerms(s, PartsBetweenColons(s))

\* C3: on text with a malformed part parseDuration still returns a sum: a
\* part contributes its numeric prefix, and zero when it has none.
C3_MalformedPartsCountAsPrefixOrZero ==
    (fn = "parseDuration" /\ ~Falsy(arg)) => res = IntV(PermissiveSeconds(arg.text))

\* the first maximal run of digits and commas of s, as [from, to]; from = 0
\* when there is none
FirstRun(s) ==
    LET in(i) == i \in DOMAIN s /\ s[i] \in DigitChars \cup {","}
    IN  IF \A i \in DOMAIN s : ~in(i) THEN [from |-> 0, to |-> 0]
        ELSE LET a == CHOOSE i \in DOMAIN s : in(i) /\ \A j \in 1..(i - 1) : ~in(j)
                 b == CHOOSE i \in a..Len(s) :
                          /\ \A j \in a..i : in(j)
                          /\ ~in(i + 1)
             IN  [from |-> a, to |-> b]

\* C4: parseViewCount returns the integer spelled by the first maximal run of
\* digits and commas, commas removed, and null when the input is undefined or
\* empty or has no such run.
C4_ViewCountIsFirstRun ==
    fn = "parseViewCount" =>
        IF Falsy(arg) \/ FirstRun(arg.text).from = 0 THEN res = Null
        ELSE LET r == FirstRun(arg.text)
                 run == SubSeq(arg.text, r.from, r.to)
                 digits == SelectSeq(run, LAMBDA c : c \in DigitChars)
             IN  AllDigits(digits) /\ res = IntV(DecimalValue(digits))

\* a count written in decimal and padded with "0" to two digits, no further
TwoDigits(s, n) ==
    /\ AllDigits(s)
    /\ DecimalValue(s) = n
    /\ Len(s) >= 2
    /\ Len(s) > 2 => s[1] # "0"

\* a count written in decimal without padding
Unpadded(s, n) ==
    /\ AllDigits(s)
    /\ DecimalValue(s) = n
    /\ Len(s) > 1 => s[1] # "0"

\* some group of PT(nH)?(nM)?(nS)? takes part in the match: the first "PT"
\* of the text is followed by digits and then H, M or S
GroupMatches(t) ==
    \E i \in DOMAIN t :
        /\ i + 1 <= Len(t) /\ t[i] = "P" /\ t[i + 1] = "T"
        /\ \A j \in 1..(i - 1) : ~(t[j] = "P" /\ t[j + 1] = "T")
        /\ \E k \in (i + 3)..Len(t) :
              /\ t[k] \in {"H", "M", "S"}
              /\ \A d \in (i + 2)..(k - 1) : t[d] \in DigitChars

ZeroDuration == <<"0", ":", "0", "0">>

\* C5: formatDuration on PT(nH)?(nM)?(nS)? takes a missing group as 0 and
\* returns H:MM:SS when hours > 0 and M:SS otherwise, minutes and seconds
\* padded to two digits except the leading field; on text where no group
\* matches it returns "0:00".
C5_FormatDuration ==
    fn = "formatDuration" =>
        /\ arg.built =>
              LET h == IF arg.h < 0 THEN 0 ELSE arg.h
                  m == IF arg.m < 0 THEN 0 ELSE arg.m
                  s == IF arg.s < 0 THEN 0 ELSE arg.s
                  out == split(res, ":")
              IN  IF h > 0
                  THEN /\ Len(out) = 3
                       /\ Unpadded(out[1], h)
                       /\ TwoDigits(out[2], m)
                       /\ TwoDigits(out[3], s)
                  ELSE /\ Len(out) = 2
                       /\ Unpadded(out[1], m)
                       /\ TwoDigits(out[2], s)
        /\ ~GroupMatches(arg.text) => res = ZeroDuration

C5_Witness ==
    /\ fn = "formatDuration"
    /\ arg.built /\ arg.h = 3 /\ arg.m = 9 /\ arg.s = 0 - 1
    /\ arg.text = <<"P", "T", "3", "H", "9", "M">>
    /\ res = <<"3", ":", "0", "9", ":", "0", "0">>

TierText(tier) ==
    CASE tier = 12 -> <<"1", "2">>
      [] tier = 48 -> <<"4", "8">>
      [] tier = 96 -> <<"9", "6">>
      [] tier = 160 -> <<"1", "6", "0">>
      [] tier = 320 -> <<"3", "2", "0">>

\* C7: for a token that decrypts to a template, deriveLinks returns one link
\* per requested tier, in the order given, repeats kept: the i-th is the i-th
\* tier with the template in which every placeholder is replaced by the
\* tier's text; no tiers give no links.
C7_OneLinkPerTierInOrder ==
    fn = "deriveLinks" =>
        /\ res.status = "ok"
        /\ Len(res.links) = Len(arg.tiers)
        /\ \A i \in DOMAIN arg.tiers :
              /\ res.links[i].tier = arg.tiers[i]
              /\ res.links[i].url = Join(arg.segments, TierText(arg.tiers[i]))

C7_Witness ==
    /\ fn = "deriveLinks"
    /\ arg.segments = <<<<"3", "2">>, <<"/", "b", "0">>, <<>>>>
    /\ arg.tiers = <<96, 96>>
    /\ res.links[2] = [tier |-> 96,
                       url |-> <<"3", "2", "9", "6", "/", "b", "0", "9", "6">>]

\* C8: formatImageQuality maps every width to the label of the highest
\* threshold it reaches: 1280, 640, 480, 320, else "120x90".
C8_QualityByThreshold ==
    fn = "formatImageQuality" =>
        /\ arg >= 1280 <=> res = "1280x720"
        /\ (640 <= arg /\ arg < 1280) <=> res = "640x480"
        /\ (480 <= arg /\ arg < 640) <=> res = "480x360"
        /\ (320 <= arg /\ arg < 480) <=> res = "320x180"
        /\ arg < 320 <=> res = "120x90"

C8_Witness ==
    /\ fn = "formatImageQuality"
    /\ arg = 640
    /\ res = "640x480"

\* C12: getYouTubeStreamUrl returns the URL of the highest-bitrate audio-only
\* format when that format has one, otherwise the URL of a format that has
\* audio, and throws only when no format with audio has a URL: whenever at
\* least one audio-bearing format carries a URL, a URL is returned.
C12_UrlWheneverAudioHasOne ==
    fn = "getYouTubeStreamUrl" =>
        LET audio == sortByBitrate(audioOnly(arg))
            usable == {i \in DOMAIN arg : arg[i].hasAudio /\ arg[i].url # ""}
        IN  /\ (audio # <<>> /\ audio[1].url # "") =>
                   (~res.threw /\ res.url = audio[1].url)
            /\ usable # {} =>
                   (~res.threw /\ \E i \in usable : res.url = arg[i].url)
            /\ res = UrlThrew("No suitable format found") => usable = {}

-----------------------------------------------------------------------------
(* Properties of the service (specification Spec) *)

\* C6: every upstream item is validated against its schema before it is
\* transformed: no apiVideo that the schema rejects reaches
\* transformYouTubeVideo or shows in a returned record.
C6_ValidatedBeforeTransform ==
    /\ \A video \in transformed : YouTubeVideoAPIResponseModel(video)
    /\ outcome.kind = "returned" =>
           \A i \in DOMAIN outcome.videos : outcome.videos[i].name.type = "string"

\* C9: an upstream exchange that has not completely finished (status and
\* body both received) is aborted when its timer fires: as long as the call
\* waits on the exchange, the timer of the exchange is pending, so that a
\* stall at any point of the exchange ends with the abort.
C9_UnfinishedExchangeIsGuarded ==
    \A f \in Frames : frameOf(pc) = f => timer[f] = "armed"

\* C10: once a call has returned or thrown, no timer it armed is still
\* pending and abort() is not invoked afterwards.
C10_NoTimerOutlivesCall ==
    /\ pc = "done" => \A f \in Frames : timer[f] # "armed"
    /\ ~lateAbort

\* the record of a video without its streamUrl
SansStream(record) == [record EXCEPT !.streamUrl = "null"]

\* C11: transformYouTubeVideo always yields a record. A returned record has a
\* non-null streamUrl only if the stream URL was asked for and the lookup of
\* that video succeeded; when the lookup throws, the record is the one built
\* without stream lookup; apart from streamUrl every record is the one built
\* without stream lookup, so a failed lookup changes no other video's record,
\* and the step in which the last lookup of a waiting request settles returns
\* one record per video, whichever of the lookups failed.
C11_StreamFailureStaysLocal ==
    /\ [](outcome.kind = "returned" =>
           \A i \in DOMAIN outcome.videos :
               /\ outcome.videos[i].streamUrl # "null" =>
                      include /\ i \in DOMAIN stream /\ stream[i] = "resolved"
               /\ SansStream(outcome.videos[i]) = transformYouTubeVideo(items[i], "null")
               /\ (i \in DOMAIN stream /\ stream[i] = "rejected") =>
                      outcome.videos[i] = transformYouTubeVideo(items[i], "null")
               /\ (i \in DOMAIN stream /\ stream[i] = "resolved") =>
                      outcome.videos[i].streamUrl = StreamUrlOf(items[i].id))
    /\ [][(pc = "streams" /\ pc' = "done") =>
              (outcome'.kind = "returned" /\ Len(outcome'.videos) = Len(stream'))]_vars

\* a request for two videos has returned: the lookup of the first failed, the
\* second record carries its stream URL
C11_Witness ==
    /\ pc = "done"
    /\ outcome.kind = "returned"
    /\ stream = <<"rejected", "resolved">>
    /\ outcome.videos[1].streamUrl = "null"
    /\ outcome.videos[2].streamUrl # "null"

\* a step in which an upstream exchange fails: the fetch ends the call
\* (non-OK status, network error, abort by the timer) or the body cannot be read
UpstreamFailure ==
    \/ pc \in {"list_fetch", "ids_fetch"} /\ pc' = "done"
    \/ BodyFails

\* the call of the route has thrown; for the video route that includes the
\* missing video
CallThrew ==
    IF op = "getVideosByIds" THEN getVideoById(outcome).kind = "threw"
    ELSE outcome.kind = "threw"

\* the failure answer of each route
AnswersFailure ==
    CASE op = "searchVideos" -> response.status = 500 /\ ~response.success
      [] op \in {"getVideosByIds", "getStreamUrl"} ->
            response.status = 404 /\ ~response.success
      [] op = "getSuggestions" ->
            response.status = 200 /\ response.success /\ response.body = <<>>
      [] OTHER -> FALSE

\* C13: no upstream failure escapes a route as an unhandled exception. Once
\* the call of a route has completed the route answers: the search route 500
\* with success=false when searchVideos threw, the video and stream routes
\* 404 with success=false when getVideoById (missing video included) or
\* getStreamUrl threw, the suggestions route always 200 with success=true,
\* getSuggestions never throwing; and a step in which an upstream exchange
\* fails leaves the route with its failure answer, the suggestions route
\* with an empty list.
C13_NoFailureEscapesARoute ==
    /\ [](pc = "done" =>
            /\ ~response.unhandled
            /\ CallThrew => AnswersFailure
            /\ op = "getSuggestions" =>
                   (outcome.kind = "returned" /\ response.status = 200 /\ response.success))
    /\ [][UpstreamFailure => (~response.unhandled /\ AnswersFailure)']_vars

\* the suggestions route has answered an empty list after the fetch of its
\* second exchange was aborted by the timer
C13_Witness ==
    /\ pc = "done"
    /\ op = "getSuggestions"
    /\ aborted["ids"]
    /\ response = Answer(200, TRUE, <<>>)

\* C14: getVideosByIds returns exactly one record per item of the upstream
\* details response, in the order of those items (items holds the apiVideos in
\* the order of data.items), in whatever order the stream lookups of the
\* videos settled and whichever of them failed.
C14_OneRecordPerItemInOrder ==
    outcome.kind = "returned" =>
        /\ Len(outcome.videos) = Len(items)
        /\ \A i \in DOMAIN items : outcome.videos[i].id = items[i].id

\* two different videos were returned in upstream order although the lookup of
\* the second settled first and the lookup of the first failed
C14_Witness ==
    /\ pc = "done"
    /\ outcome.kind = "returned"
    /\ order = <<2, 1>>
    /\ stream[1] = "rejected"
    /\ items[1].id # items[2].id
    /\ <<outcome.videos[1].id, outcome.videos[2].id>> = <<items[1].id, items[2].id>>

=============================================================================
